---- MODULE Spec2Model ----
(***************************************************************************)
(* Case and DCA (debt collection agency) models of the collection          *)
(* platform: the Mongoose schemas DCA and Case, their instance methods and *)
(* pre-save hooks, run by concurrent request handlers that each work on    *)
(* their own loaded copy of a stored document; the account lockout of the  *)
(* User schema and POST /login, and the requireDCAAssociation middleware.  *)
(*                                                                         *)
(* A Mongoose document is a private in-memory copy.  doc.save() sends one  *)
(* atomic update that holds only the paths the copy changed: $set for a    *)
(* changed scalar, $push for elements appended to an array.  The schemas   *)
(* do not enable optimisticConcurrency, so a $set of a scalar is applied   *)
(* whatever the stored document has become since the copy was loaded.      *)
(***************************************************************************)
EXTENDS Integers, Sequences, FiniteSets, TLC

\* ---------------------------------------------------------------- bounds
MaxCap == 2          \* largest capacity.maxConcurrentCases explored
MaxWrites == 3       \* DCA operations explored per behaviour
Workers == {"w1", "w2"}   \* concurrent request handlers

NoDoc == [none |-> TRUE]  \* a handler that holds no loaded document
NoDCA == "none"           \* Case.assignedDCA not set
DcaId == "d1"             \* _id of the one DCA record

VARIABLES
    dca,      \* the stored DCA record: capacity.{maxConcurrentCases, currentCaseLoad}
    dcaVer,   \* number of DCA operations performed so far (history)
    wdca,     \* per handler: its loaded DCA document, or NoDoc
    wver,     \* per handler: dcaVer when the copy was loaded
    wfresh,   \* per handler: no operation has been made on the copy since it was loaded
    att,      \* per handler: its last DCA operation and what it observed
    case,     \* the stored Case record
    wcase,    \* per handler: its loaded Case document, or NoDoc
    now,      \* the wall clock, in days
    last,     \* the last Case operation and what it observed
    ack       \* number of Case operations made, and of appends reported successful

VARIABLES
    probe,    \* one document with the calls made on it and what they returned
    user,     \* the stored User record
    wuser,    \* per handler: the User document its login request loaded, or NoDoc
    coll,     \* the stored Case collection: [number, year] of every record, in insertion order
    ins       \* per handler: the last save() of a Case it made and how it ended

vars == <<dca, dcaVer, wdca, wver, wfresh, att, case, wcase, now, last, ack,
          probe, user, wuser, coll, ins>>
dcaVars == <<dca, dcaVer, wdca, wver, wfresh, att>>
caseVars == <<case, wcase, now, last, ack>>
userVars == <<user, wuser>>
collVars == <<coll, ins>>
auxVars == <<probe, user, wuser, coll, ins>>

Max(a, b) == IF a >= b THEN a ELSE b

\* ------------------------------------------------------------ DCA schema
\* capacity: maxConcurrentCases min 1, currentCaseLoad min 0 (validators run on save)
DcaValid(d) == d.max >= 1 /\ d.load >= 0

\* dcaSchema.virtual('availableCapacity')
availableCapacity(d) == Max(0, d.max - d.load)

\* a pre-save hook that leaves the load as it is
DcaPreSaveNoClamp(d) == d

\* dcaSchema.pre('save'): clamp the load to the maximum
DcaPreSave(d) ==
    IF d.load > d.max THEN [d EXCEPT !.load = d.max] ELSE d

\* Document.save() of a DCA copy that was d0 when clean and is d1 now:
\* validators, pre-save hook, then $set of the changed path on the stored record.
\* Returns the stored record and the copy after the call, and the load
\* the copy asked to store.
DcaSave(stored, d0, d1) ==
    IF ~DcaValid(d1)
    THEN [stored |-> stored, doc |-> d1, req |-> d1.load, res |-> "ValidationError"]
    ELSE LET d2 == DcaPreSave(d1)
         IN  [stored |-> IF d2.load # d0.load
                         THEN [stored EXCEPT !.load = d2.load]
                         ELSE stored,
              doc |-> d2, req |-> d1.load, res |-> "ok"]

\* what a handler records of one DCA operation
Attempt(o, d0, r, v, f) ==
    [op |-> o, pre |-> d0, req |-> r.req, post |-> r.doc, res |-> r.res,
     ver |-> v, fresh |-> f, before |-> dca, after |-> r.stored]

NoAttempt == [op |-> "none"]

\* DCA.findById: the handler gets a private copy of the stored record
loadDCA(w) ==
    /\ wdca' = [wdca EXCEPT ![w] = dca]
    /\ wver' = [wver EXCEPT ![w] = dcaVer]
    /\ wfresh' = [wfresh EXCEPT ![w] = TRUE]
    /\ UNCHANGED <<dca, dcaVer, att>>
    /\ UNCHANGED caseVars
    /\ UNCHANGED auxVars

DcaStep(w, o, r) ==
    /\ dcaVer < MaxWrites
    /\ dca' = r.stored
    /\ dcaVer' = dcaVer + 1
    /\ wdca' = [wdca EXCEPT ![w] = r.doc]
    /\ att' = [att EXCEPT ![w] = Attempt(o, wdca[w], r, wver[w], wfresh[w])]
    /\ wfresh' = [wfresh EXCEPT ![w] = FALSE]
    /\ UNCHANGED wver
    /\ UNCHANGED caseVars
    /\ UNCHANGED auxVars

\* assignCase with the capacity test off by one (>= 0 for > 0)
assignCaseGe(w) ==
    /\ wdca[w] # NoDoc
    /\ LET d == wdca[w]
       IN  IF availableCapacity(d) >= 0
           THEN DcaStep(w, "assignCase",
                    DcaSave(dca, d, [d EXCEPT !.load = @ + 1]))
           ELSE DcaStep(w, "assignCase",
                    [stored |-> dca, doc |-> d, req |-> d.load, res |-> "Error"])

\* dcaSchema.methods.assignCase
assignCase(w) ==
    /\ wdca[w] # NoDoc
    /\ LET d == wdca[w]
       IN  IF availableCapacity(d) > 0
           THEN DcaStep(w, "assignCase",
                    DcaSave(dca, d, [d EXCEPT !.load = @ + 1]))
           ELSE DcaStep(w, "assignCase",
                    [stored |-> dca, doc |-> d, req |-> d.load, res |-> "Error"])

\* releaseCase without the test for a positive load
releaseCaseNoFloor(w) ==
    /\ wdca[w] # NoDoc
    /\ LET d == wdca[w]
       IN  DcaStep(w, "releaseCase",
               DcaSave(dca, d, [d EXCEPT !.load = @ - 1]))

\* dcaSchema.methods.releaseCase
releaseCase(w) ==
    /\ wdca[w] # NoDoc
    /\ LET d == wdca[w]
       IN  IF d.load > 0
           THEN DcaStep(w, "releaseCase",
                    DcaSave(dca, d, [d EXCEPT !.load = @ - 1]))
           ELSE DcaStep(w, "releaseCase", DcaSave(dca, d, d))

\* capacity.currentCaseLoad = n on the copy (n = its load: no change), then doc.save()
saveDCA(w, n) ==
    /\ wdca[w] # NoDoc
    /\ DcaStep(w, "save", DcaSave(dca, wdca[w], [wdca[w] EXCEPT !.load = n]))

\* ----------------------------------------------------------- Case schema
MaxAmount == 2       \* largest debt or payment amount explored
MaxTime == 2         \* last day of the clock
MaxAppends == 2      \* appends explored per owned sequence of the case
MaxCaseOps == 3      \* Case operations explored per behaviour

NoDate == 0          \* a Date path that is not set; the clock starts at day 1
PaymentStatuses == {"PENDING", "COMPLETED", "REFUNDED"}
PaymentStatusEnum == {"PENDING", "COMPLETED", "FAILED", "REFUNDED"}
CreateStatuses == {"NEW", "ASSIGNED", "CLOSED"}
EscalationLevels == {1}

\* Array.prototype.reduce over the COMPLETED payments
RECURSIVE SumCompleted(_)
SumCompleted(ps) ==
    IF ps = <<>> THEN 0
    ELSE (IF Head(ps).status = "COMPLETED" THEN Head(ps).amount ELSE 0)
         + SumCompleted(Tail(ps))

\* a total over the payments of every status
totalPaidAny(c) ==
    SumCompleted([i \in 1..Len(c.payments) |->
                    [c.payments[i] EXCEPT !.status = "COMPLETED"]])

\* caseSchema.virtual('totalPaid')
totalPaid(c) == SumCompleted(c.payments)

\* caseSchema.virtual('overdueDays'), the clock counted in whole days
overdueDays(c, t) ==
    IF c.dueDate = NoDate \/ c.dueDate > t THEN 0 ELSE t - c.dueDate

\* the upper thresholds with < for <=
agingCategoryLt(days) ==
    IF days <= 0 THEN "FRESH"
    ELSE IF days < 30 THEN "LOW"
    ELSE IF days < 60 THEN "MEDIUM"
    ELSE IF days < 90 THEN "HIGH"
    ELSE "CRITICAL"

\* caseSchema.pre('save'): aging category thresholds
agingCategory(days) ==
    IF days <= 0 THEN "FRESH"
    ELSE IF days <= 30 THEN "LOW"
    ELSE IF days <= 60 THEN "MEDIUM"
    ELSE IF days <= 90 THEN "HIGH"
    ELSE "CRITICAL"

\* an aging hook that leaves aging.days and aging.category as they are
CasePreSaveAgingOff(c, t) == c

\* caseSchema.pre('save'): update aging information
CasePreSaveAging(c, t) ==
    IF c.dueDate # NoDate
    THEN [c EXCEPT !.agingDays = overdueDays(c, t),
                   !.agingCat = agingCategory(overdueDays(c, t))]
    ELSE c

\* caseSchema.pre('save'): update current debt amount
CasePreSaveAmount(c) ==
    IF Len(c.payments) > 0
    THEN [c EXCEPT !.cur = Max(0, c.orig - totalPaid(c))]
    ELSE c

\* validators of the paths the operations write
CaseValid(c) ==
    /\ c.orig >= 0 /\ c.cur >= 0 /\ c.agingDays >= 0
    /\ \A i \in 1..Len(c.payments) :
          c.payments[i].amount >= 0 /\ c.payments[i].status \in PaymentStatusEnum
    /\ \A i \in 1..Len(c.escalations) : c.escalations[i] >= 1

\* paths of a Case that save() writes with $set when the copy changed them
ScalarPaths ==
    {"status", "assignedDCA", "orig", "cur", "dueDate", "agingDays", "agingCat",
     "firstContact", "lastContact", "escalationDate"}

\* the elements a copy d1 appended to the array path f since it was d0
Pushed(d0, d1, f) == SubSeq(d1[f], Len(d0[f]) + 1, Len(d1[f]))

\* the copy changed an element of payments that it had loaded
ChangedElement(d0, d1) ==
    \E i \in 1..Len(d0.payments) : d1.payments[i] # d0.payments[i]

\* the copy appended to one of its arrays
HasPush(d0, d1) ==
    \/ Len(d1.payments) > Len(d0.payments)
    \/ Len(d1.escalations) > Len(d0.escalations)
    \/ d1.comms > d0.comms

\* Document.save() of a Case copy that was d0 when clean and is d1 now, at
\* time t: validators, the pre-save hooks, then one atomic update of the
\* stored record: $set of each changed scalar path, $push of the appended
\* elements (which also increments __v), and a $set of a changed array
\* element, which is applied only if the stored __v is the copy's __v.
CaseSave(stored, d0, d1, t) ==
    IF ~CaseValid(d1)
    THEN [stored |-> stored, doc |-> NoDoc, res |-> "ValidationError"]
    ELSE LET d2 == CasePreSaveAmount(CasePreSaveAging(d1, t))
             inc == IF HasPush(d0, d2) THEN 1 ELSE 0
         IN  IF ChangedElement(d0, d2) /\ stored.v # d0.v
             THEN [stored |-> stored, doc |-> NoDoc, res |-> "VersionError"]
             ELSE [stored |->
                     [f \in DOMAIN stored |->
                        IF f \in ScalarPaths
                        THEN IF d2[f] # d0[f] THEN d2[f] ELSE stored[f]
                        ELSE IF f = "payments"
                        THEN [i \in 1..Len(stored.payments) |->
                                 IF i <= Len(d0.payments)
                                    /\ d2.payments[i] # d0.payments[i]
                                 THEN d2.payments[i]
                                 ELSE stored.payments[i]]
                             \o Pushed(d0, d2, "payments")
                        ELSE IF f = "escalations"
                        THEN stored.escalations \o Pushed(d0, d2, "escalations")
                        ELSE IF f = "comms"
                        THEN stored.comms + (d2.comms - d0.comms)
                        ELSE stored.v + inc],
                   doc |-> [d2 EXCEPT !.v = @ + inc], res |-> "ok"]

\* new Case({...}).save() at time t: the record as first stored
NewCase(s, a, o, c, due, t) ==
    CasePreSaveAmount(CasePreSaveAging(
        [status |-> s, assignedDCA |-> a, orig |-> o, cur |-> c, dueDate |-> due,
         agingDays |-> 0, agingCat |-> "FRESH",
         payments |-> <<>>, comms |-> 0, escalations |-> <<>>,
         firstContact |-> NoDate, lastContact |-> NoDate, escalationDate |-> NoDate,
         v |-> 0], t))

NoOp == [op |-> "none"]

\* new Case({status, debt: {originalAmount, currentAmount, dueDate}}).save()
createCase(s, o, c, due) ==
    /\ case = NoDoc
    /\ case' = NewCase(s, NoDCA, o, c, due, now)
    /\ UNCHANGED <<wcase, now, last, ack>>
    /\ UNCHANGED dcaVars
    /\ UNCHANGED auxVars

\* Case.findById: the handler gets a private copy of the stored record
loadCase(w) ==
    /\ case # NoDoc
    /\ wcase' = [wcase EXCEPT ![w] = case]
    /\ UNCHANGED <<case, now, last, ack>>
    /\ UNCHANGED dcaVars
    /\ UNCHANGED auxVars

\* one method call on the copy of handler w: the copy becomes d1 and is saved
CaseStep(w, o, d1, k) ==
    LET r == CaseSave(case, wcase[w], d1, now)
    IN  /\ ack.ops < MaxCaseOps
        /\ case' = r.stored
        /\ wcase' = [wcase EXCEPT ![w] = r.doc]
        /\ last' = [op |-> o, w |-> w, res |-> r.res, pre |-> wcase[w],
                    before |-> case, after |-> r.stored]
        /\ ack' = IF r.res = "ok" /\ k # "ops"
                  THEN [ack EXCEPT ![k] = @ + 1, !.ops = @ + 1]
                  ELSE [ack EXCEPT !.ops = @ + 1]
        /\ UNCHANGED now
        /\ UNCHANGED dcaVars
        /\ UNCHANGED auxVars

\* caseSchema.methods.addPayment
addPayment(w, payment) ==
    /\ wcase[w] # NoDoc
    /\ Len(case.payments) < MaxAppends
    /\ CaseStep(w, "addPayment",
           [wcase[w] EXCEPT !.payments = Append(@, payment)], "payments")

\* payment.status = s on a loaded payment, then doc.save()
setPaymentStatus(w, i, s) ==
    /\ wcase[w] # NoDoc
    /\ i \in 1..Len(wcase[w].payments)
    /\ wcase[w].payments[i].status # s
    /\ CaseStep(w, "setPaymentStatus",
           [wcase[w] EXCEPT !.payments[i].status = s], "ops")

\* caseSchema.methods.addCommunication
addCommunication(w) ==
    /\ wcase[w] # NoDoc
    /\ case.comms < MaxAppends
    /\ CaseStep(w, "addCommunication",
           [wcase[w] EXCEPT !.comms = @ + 1,
                            !.lastContact = now,
                            !.firstContact = IF @ = NoDate THEN now ELSE @],
           "comms")

\* escalate that sets the status and the date but appends no record
escalateNoRecord(w, level) ==
    /\ wcase[w] # NoDoc
    /\ Len(case.escalations) < MaxAppends
    /\ CaseStep(w, "escalate",
           [wcase[w] EXCEPT !.status = "ESCALATED",
                            !.escalationDate = now],
           "ops")

\* caseSchema.methods.escalate
escalate(w, level) ==
    /\ wcase[w] # NoDoc
    /\ Len(case.escalations) < MaxAppends
    /\ CaseStep(w, "escalate",
           [wcase[w] EXCEPT !.escalations = Append(@, level),
                            !.status = "ESCALATED",
                            !.escalationDate = now],
           "escalations")

\* doc.save() of a copy the handler did not change
saveCase(w) ==
    /\ wcase[w] # NoDoc
    /\ CaseStep(w, "save", wcase[w], "ops")

\* a day passes
Tick ==
    /\ now < MaxTime
    /\ now' = now + 1
    /\ UNCHANGED <<case, wcase, last, ack>>
    /\ UNCHANGED dcaVars
    /\ UNCHANGED auxVars

DcaIdle ==
    /\ dcaVer = 0
    /\ wdca = [w \in Workers |-> NoDoc]
    /\ wver = [w \in Workers |-> 0]
    /\ wfresh = [w \in Workers |-> FALSE]
    /\ att = [w \in Workers |-> NoAttempt]

CaseIdle ==
    /\ wcase = [w \in Workers |-> NoDoc]
    /\ now = 1
    /\ last = NoOp
    /\ ack = [payments |-> 0, comms |-> 0, escalations |-> 0, ops |-> 0]

ProbeIdle == probe = NoDoc

UserIdle ==
    /\ user = NoDoc
    /\ wuser = [w \in Workers |-> NoDoc]

CollIdle ==
    /\ coll = <<>>
    /\ ins = [w \in Workers |-> NoDoc]

\* the store before the case is created
InitCase ==
    /\ case = NoDoc
    /\ dca = [max |-> 1, load |-> 0]
    /\ DcaIdle
    /\ CaseIdle
    /\ ProbeIdle
    /\ UserIdle
    /\ CollIdle

NextCase ==
    \/ \E s \in CreateStatuses : \E c \in 0..MaxAmount :
          createCase(s, MaxAmount, c, 1)
    \/ \E w \in Workers :
          \/ loadCase(w)
          \/ \E a \in 1..MaxAmount : \E s \in {"PENDING", "COMPLETED"} :
                addPayment(w, [amount |-> a, status |-> s])
          \/ \E i \in 1..MaxAppends : \E s \in PaymentStatuses :
                setPaymentStatus(w, i, s)
          \/ addCommunication(w)
          \/ \E l \in EscalationLevels : escalate(w, l)
          \/ saveCase(w)
    \/ Tick

SpecCase == InitCase /\ [][NextCase]_vars

\* the DCA after onboarding with the cases that already hold a slot on it
InitDCA ==
    /\ \E m \in 1..MaxCap : \E l \in 0..1 :
          /\ dca = [max |-> m, load |-> l]
          /\ case = IF l = 1
                    THEN NewCase("ASSIGNED", DcaId, 1, 1, 1, 1)
                    ELSE NewCase("NEW", NoDCA, 1, 1, 1, 1)
    /\ DcaIdle
    /\ CaseIdle
    /\ ProbeIdle
    /\ UserIdle
    /\ CollIdle

NextDCA ==
    \E w \in Workers :
        \/ loadDCA(w)
        \/ assignCase(w)
        \/ releaseCase(w)
        \/ \E n \in -1..(MaxCap + 1) : saveDCA(w, n)

SpecDCA == InitDCA /\ [][NextDCA]_vars

\* ------------------------------------------------------ capacity ledger
Attempted(w, o) == att[w].op = o

\* C1: in every stored state 0 <= capacity.currentCaseLoad <= capacity.maxConcurrentCases
C1_LoadWithinCapacity ==
    0 <= dca.load /\ dca.load <= dca.max

C1_Witness ==
    /\ dca.load = dca.max
    /\ \E w1, w2 \in Workers :
          /\ Attempted(w1, "save") /\ att[w1].res = "ok"
          /\ att[w1].req > att[w1].pre.max
          /\ att[w1].before.load < att[w1].after.load
          /\ Attempted(w2, "assignCase") /\ att[w2].res = "Error"

\* C2: of two assignCase attempts made on copies of the same stored DCA with
\* availableCapacity 1, exactly one succeeds and the stored load rises by 1
C2_ExactlyOneSucceeds ==
    \A w1, w2 \in Workers :
        ( /\ w1 # w2
          /\ Attempted(w1, "assignCase") /\ Attempted(w2, "assignCase")
          /\ att[w1].fresh /\ att[w2].fresh /\ att[w1].ver = att[w2].ver
          /\ availableCapacity(att[w1].pre) = 1 )
        => /\ (att[w1].res = "ok") # (att[w2].res = "ok")
           /\ Max(att[w1].after.load, att[w2].after.load) = att[w1].pre.load + 1

\* C3: assignCase on a DCA with availableCapacity < 1 fails and leaves the
\* load unchanged; with availableCapacity >= 1 it raises the load by
\* exactly 1 and leaves maxConcurrentCases unchanged
C3_AssignCase ==
    \A w \in Workers :
        Attempted(w, "assignCase") =>
            LET a == att[w]
            IN  IF availableCapacity(a.pre) < 1
                THEN /\ a.res = "Error"
                     /\ a.post.load = a.pre.load
                     /\ a.after = a.before
                ELSE /\ a.res = "ok"
                     /\ a.post.load = a.pre.load + 1
                     /\ a.after.load = a.pre.load + 1
                     /\ a.post.max = a.pre.max
                     /\ a.after.max = a.before.max

C3_Witness ==
    \E w1, w2 \in Workers :
        /\ Attempted(w1, "assignCase") /\ att[w1].res = "Error"
        /\ Attempted(w2, "assignCase") /\ att[w2].res = "ok"

\* C4: the DCA's currentCaseLoad equals the number of cases whose
\* assignedDCA is that DCA (one slot per bound case, released exactly once)
C4_LoadEqualsBoundCases ==
    dca.load = Cardinality({c \in {case} : c.assignedDCA = DcaId})

\* C9: while the case is ASSIGNED and holds its slot, an allocation attempt
\* fails and the DCA's stored load is the same after it as before it
C9_NoDoubleReserve ==
    \A w \in Workers :
        (case.status = "ASSIGNED" /\ Attempted(w, "assignCase")) =>
            /\ att[w].res # "ok"
            /\ att[w].after.load = att[w].before.load

\* C10: releaseCase lowers the load by exactly 1 when it is above 0, leaves
\* it at 0 when it is 0, never makes it negative, never changes the maximum
C10_ReleaseCase ==
    \A w \in Workers :
        Attempted(w, "releaseCase") =>
            LET a == att[w]
            IN  /\ a.after.load >= 0
                /\ a.post.max = a.pre.max
                /\ a.after.max = a.before.max
                /\ a.pre.load > 0 =>
                      /\ a.res = "ok"
                      /\ a.post.load = a.pre.load - 1
                      /\ a.after.load = a.pre.load - 1
                /\ a.pre.load = 0 =>
                      /\ a.res = "ok"
                      /\ a.post.load = 0
                      /\ a.after.load = a.before.load

C10_Witness ==
    \E w1, w2 \in Workers :
        /\ Attempted(w1, "releaseCase") /\ att[w1].pre.load > 0
        /\ Attempted(w2, "releaseCase") /\ att[w2].pre.load = 0

\* ------------------------------------------------------- case aggregate
\* C5: debt.currentAmount = max(0, debt.originalAmount - sum of the COMPLETED
\* payments) in every stored state of a case, a case without payments included
C5_CurrentAmount ==
    case # NoDoc => case.cur = Max(0, case.orig - totalPaid(case))

\* C6: what is stored after concurrent writers is what some serial order of
\* them stores: every acknowledged append is present, debt.currentAmount
\* reflects every stored payment and status reflects every stored escalation
C6_SerialOutcome ==
    case # NoDoc =>
    /\ Len(case.payments) = ack.payments
    /\ case.comms = ack.comms
    /\ Len(case.escalations) = ack.escalations
    /\ Len(case.payments) > 0 => case.cur = Max(0, case.orig - totalPaid(case))
    /\ Len(case.escalations) > 0 => case.status = "ESCALATED"

\* C7: no operation changes the status of a CLOSED case, and escalate on it
\* fails with InvalidTransition and leaves status, escalations and dates as
\* they were
C7_ClosedIsTerminal ==
    (last.op # "none" /\ last.before.status = "CLOSED") =>
        /\ last.after.status = "CLOSED"
        /\ last.op = "escalate" =>
              /\ last.res = "InvalidTransition"
              /\ last.after.escalations = last.before.escalations
              /\ last.after.escalationDate = last.before.escalationDate

\* C8: escalate gives a case that is not yet ESCALATED one more Escalation
\* record and status ESCALATED; on a case that is already ESCALATED it adds
\* no Escalation record and leaves dates.escalationDate as it was
C8_SweepEscalatesOnce ==
    last.op = "escalate" =>
        IF last.before.status = "ESCALATED"
        THEN /\ last.after.escalations = last.before.escalations
             /\ last.after.escalationDate = last.before.escalationDate
        ELSE /\ Len(last.after.escalations) = Len(last.before.escalations) + 1
             /\ last.after.status = "ESCALATED"

\* ------------------------------------------- one document, calls in sequence
MaxTrail == 4        \* method calls explored on one document

\* the other records of the store while one document is exercised
StoreIdle ==
    /\ dca = [max |-> 1, load |-> 0]
    /\ case = NoDoc
    /\ DcaIdle
    /\ CaseIdle

\* dcaSchema.methods.assignCase called on the document d of the stored record
assignCaseOn(stored, d) ==
    IF availableCapacity(d) > 0
    THEN DcaSave(stored, d, [d EXCEPT !.load = @ + 1])
    ELSE [stored |-> stored, doc |-> d, req |-> d.load, res |-> "Error"]

\* releaseCase that keeps the last slot (load > 1 for load > 0)
releaseCaseOnAboveOne(stored, d) ==
    IF d.load > 1
    THEN DcaSave(stored, d, [d EXCEPT !.load = @ - 1])
    ELSE DcaSave(stored, d, d)

\* dcaSchema.methods.releaseCase called on the document d of the stored record
releaseCaseOn(stored, d) ==
    IF d.load > 0
    THEN DcaSave(stored, d, [d EXCEPT !.load = @ - 1])
    ELSE DcaSave(stored, d, d)

\* one call on the document: the trail keeps what the document was before it
LedgerStep(o, r) ==
    /\ Len(probe.trail) < MaxTrail
    /\ probe' = [stored |-> r.stored, doc |-> r.doc,
                 trail |-> Append(probe.trail,
                              [op |-> o, res |-> r.res, load |-> probe.doc.load,
                               avail |-> availableCapacity(probe.doc)])]
    /\ UNCHANGED <<dcaVars, caseVars, userVars, collVars>>

ledgerAssign == LedgerStep("assignCase", assignCaseOn(probe.stored, probe.doc))

ledgerRelease == LedgerStep("releaseCase", releaseCaseOn(probe.stored, probe.doc))

\* a stored DCA and the document DCA.findById returned for it
InitLedger ==
    /\ \E m \in 1..MaxCap : \E l \in 0..m :
          probe = [stored |-> [max |-> m, load |-> l],
                   doc |-> [max |-> m, load |-> l], trail |-> <<>>]
    /\ StoreIdle
    /\ UserIdle
    /\ CollIdle

NextLedger == ledgerAssign \/ ledgerRelease

SpecLedger == InitLedger /\ [][NextLedger]_vars

\* the last two calls were assignCase with a free slot, then releaseCase
AssignThenRelease ==
    LET n == Len(probe.trail)
    IN  /\ n >= 2
        /\ probe.trail[n - 1].op = "assignCase"
        /\ probe.trail[n - 1].avail >= 1
        /\ probe.trail[n].op = "releaseCase"

\* C11: from a DCA state with availableCapacity >= 1, assignCase followed by
\* releaseCase both succeed and leave currentCaseLoad and availableCapacity,
\* on the document and in the store, as they were before the assignCase
C11_RoundTrip ==
    AssignThenRelease =>
        LET n == Len(probe.trail)
        IN  /\ probe.trail[n - 1].res = "ok"
            /\ probe.trail[n].res = "ok"
            /\ probe.doc.load = probe.trail[n - 1].load
            /\ availableCapacity(probe.doc) = probe.trail[n - 1].avail
            /\ probe.stored.load = probe.trail[n - 1].load

C11_Witness ==
    /\ AssignThenRelease
    /\ probe.trail[Len(probe.trail)].load = probe.trail[Len(probe.trail) - 1].load + 1
    /\ probe.stored.load = probe.trail[Len(probe.trail) - 1].load

\* ------------------------------------------------- availability of a DCA
DcaStatuses == {"ACTIVE", "INACTIVE", "SUSPENDED", "TERMINATED", "ONBOARDING"}
ContractStatuses == {"ACTIVE", "INACTIVE", "SUSPENDED", "TERMINATED", "PENDING"}
MaxRequired == 3     \* largest requiredCapacity / minCapacity asked for

\* an ACTIVE DCA whose five slots are all taken
FullDCA ==
    [status |-> "ACTIVE", contract |-> "ACTIVE", isBlacklisted |-> FALSE,
     max |-> 5, load |-> 5]

\* dcaSchema.statics.findAvailable without the flags.isBlacklisted condition
findAvailableAnyFlag(c, minCapacity) ==
    {id \in DOMAIN c :
        /\ c[id].status = "ACTIVE"
        /\ c[id].contract = "ACTIVE"
        /\ c[id].max - c[id].load >= minCapacity}

\* dcaSchema.statics.findAvailable: the _ids the query matches in collection c
findAvailable(c, minCapacity) ==
    {id \in DOMAIN c :
        /\ c[id].status = "ACTIVE"
        /\ c[id].contract = "ACTIVE"
        /\ c[id].isBlacklisted = FALSE
        /\ c[id].max - c[id].load >= minCapacity}

\* dcaSchema.methods.isAvailable
isAvailable(d, requiredCapacity) ==
    /\ d.status = "ACTIVE"
    /\ d.contract = "ACTIVE"
    /\ ~d.isBlacklisted
    /\ availableCapacity(d) >= requiredCapacity

NotCalled == [done |-> FALSE, val |-> FALSE]

\* doc.isAvailable(n) on the document of DCA id
callIsAvailable(id) ==
    /\ ~probe.isAvail[id].done
    /\ probe' = [probe EXCEPT !.isAvail[id] =
                    [done |-> TRUE, val |-> isAvailable(probe.dcas[id], probe.n)]]
    /\ UNCHANGED <<dcaVars, caseVars, userVars, collVars>>

\* DCA.findAvailable(n)
callFindAvailable ==
    /\ ~probe.found.done
    /\ probe' = [probe EXCEPT !.found =
                    [done |-> TRUE, ids |-> findAvailable(probe.dcas, probe.n)]]
    /\ UNCHANGED <<dcaVars, caseVars, userVars, collVars>>

\* a DCA collection of two records, as the schema lets them be stored, and
\* the capacity n that both calls are made with
InitAvail ==
    /\ \E s \in DcaStatuses : \E cs \in ContractStatuses : \E b \in BOOLEAN :
       \E m \in 1..MaxCap : \E l \in 0..m : \E n \in 0..MaxRequired :
          probe = [dcas |-> [id \in {"d1", "d5"} |->
                               IF id = "d5" THEN FullDCA
                               ELSE [status |-> s, contract |-> cs,
                                     isBlacklisted |-> b, max |-> m, load |-> l]],
                   n |-> n,
                   isAvail |-> [id \in {"d1", "d5"} |-> NotCalled],
                   found |-> [done |-> FALSE, ids |-> {}]]
    /\ StoreIdle
    /\ UserIdle
    /\ CollIdle

NextAvail ==
    \/ \E id \in {"d1", "d5"} : callIsAvailable(id)
    \/ callFindAvailable

SpecAvail == InitAvail /\ [][NextAvail]_vars

\* C12: isAvailable(n) is true exactly when status and contract.status are
\* ACTIVE, the DCA is not blacklisted and max - load >= n; findAvailable(n)
\* returns exactly the DCAs whose isAvailable(n) is true; the DCA with
\* max = 5 and load = 5 is not returned for n = 1
C12_Available ==
    /\ \A id \in DOMAIN probe.dcas :
          probe.isAvail[id].done =>
             LET d == probe.dcas[id]
             IN  /\ probe.isAvail[id].val <=>
                       (/\ d.status = "ACTIVE"
                        /\ d.contract = "ACTIVE"
                        /\ ~d.isBlacklisted
                        /\ d.max - d.load >= probe.n)
                 /\ probe.found.done =>
                       (id \in probe.found.ids <=> probe.isAvail[id].val)
    /\ (probe.found.done /\ probe.n = 1) => "d5" \notin probe.found.ids

C12_Witness ==
    /\ probe.found.done
    /\ probe.isAvail["d1"].done /\ probe.isAvail["d5"].done
    /\ probe.n = 1
    /\ probe.found.ids = {"d1"}
    /\ probe.isAvail["d1"].val /\ ~probe.isAvail["d5"].val

\* --------------------------------------------------------- escalation
\* the case aggregate without its payments: the operations that write
\* status, escalations or dates
NextEscalation ==
    \/ \E s \in CreateStatuses : createCase(s, MaxAmount, MaxAmount, 1)
    \/ \E w \in Workers :
          \/ loadCase(w)
          \/ addCommunication(w)
          \/ \E l \in EscalationLevels : escalate(w, l)
          \/ saveCase(w)
    \/ Tick

SpecEscalation == InitCase /\ [][NextEscalation]_vars

MaxDay == 95         \* last day of the wall clock explored
DueDates == {1, 5}   \* debt.dueDate of the case: first day, and after it

\* case.save() of the document, nothing changed on it since the last save
agingSave ==
    LET r == CaseSave(probe.stored, probe.doc, probe.doc, now)
    IN  /\ probe' = [stored |-> r.stored, doc |-> r.doc, savedAt |-> now,
                     moved |-> r.stored.agingCat # probe.stored.agingCat]
        /\ UNCHANGED <<dcaVars, caseVars, userVars, collVars>>

\* a day passes; nothing is written
DayPasses ==
    /\ now < MaxDay
    /\ now' = now + 1
    /\ UNCHANGED <<case, wcase, last, ack>>
    /\ UNCHANGED <<dcaVars, probe, userVars, collVars>>

\* a case created on the first day
InitAging ==
    /\ \E due \in DueDates :
          probe = [stored |-> NewCase("NEW", NoDCA, 1, 1, due, 1),
                   doc |-> NewCase("NEW", NoDCA, 1, 1, due, 1),
                   savedAt |-> 1, moved |-> FALSE]
    /\ StoreIdle
    /\ UserIdle
    /\ CollIdle

NextAging == agingSave \/ DayPasses

SpecAging == InitAging /\ [][NextAging]_vars

\* whole days from debt.dueDate to the last save, 0 before the due date
DaysAtSave ==
    IF probe.stored.dueDate > probe.savedAt THEN 0
    ELSE probe.savedAt - probe.stored.dueDate

\* C14: the case as saved holds aging.days = the overdue days at the save and
\* aging.category by the thresholds <= 0 FRESH, 1..30 LOW, 31..60 MEDIUM,
\* 61..90 HIGH, > 90 CRITICAL
C14_AgingCategory ==
    LET d == DaysAtSave
        c == probe.stored.agingCat
    IN  /\ probe.stored.agingDays = d
        /\ probe.doc = probe.stored
        /\ (d <= 0) <=> (c = "FRESH")
        /\ (1 <= d /\ d <= 30) <=> (c = "LOW")
        /\ (31 <= d /\ d <= 60) <=> (c = "MEDIUM")
        /\ (61 <= d /\ d <= 90) <=> (c = "HIGH")
        /\ (d > 90) <=> (c = "CRITICAL")
        /\ (d = 30 => c = "LOW") /\ (d = 31 => c = "MEDIUM")
        /\ (d = 90 => c = "HIGH") /\ (d = 91 => c = "CRITICAL")

C14_Witness ==
    /\ probe.savedAt = now
    /\ DaysAtSave = 91
    /\ probe.stored.agingDays = 91
    /\ probe.stored.agingCat = "CRITICAL"

\* ------------------------------------------- scheduled aging pass
\* the scheduled job of services/schedulerService (started by
\* initializeScheduledJobs): it loads the case and saves it, so that the
\* pre-save hooks recompute the aging from the clock
agingPass ==
    LET r == CaseSave(probe.stored, probe.stored, probe.stored, now)
    IN  /\ probe' = [stored |-> r.stored, doc |-> r.doc, savedAt |-> now,
                     moved |-> r.stored.agingCat # probe.stored.agingCat]
        /\ UNCHANGED <<dcaVars, caseVars, userVars, collVars>>

NextAgingPass == agingPass \/ DayPasses

\* the job keeps being run while the server is up
SpecAgingPass == InitAging /\ [][NextAgingPass]_vars /\ WF_vars(agingPass)

\* the stored aging is the one of the present day
AgingCurrent ==
    /\ probe.stored.agingDays = overdueDays(probe.stored, now)
    /\ probe.stored.agingCat = agingCategory(overdueDays(probe.stored, now))

OrigAmounts == {0, 2, 1000}   \* debt.originalAmount of the case
PayAmounts == {1, 400}        \* amounts of the payments recorded

\* caseSchema.virtual('recoveryRate'): the quotient (totalPaid / originalAmount)
\* * 100 kept as the fraction num / den
recoveryRate(c) ==
    IF c.orig = 0 THEN [num |-> 0, den |-> 1]
    ELSE [num |-> totalPaid(c) * 100, den |-> c.orig]

NotRead == [done |-> FALSE, num |-> 0, den |-> 1]

\* caseSchema.methods.addPayment on the document; completed keeps the sum of
\* the amounts that were recorded as COMPLETED
recordPayment(a, s) ==
    LET r == CaseSave(probe.stored, probe.doc,
                      [probe.doc EXCEPT !.payments =
                          Append(@, [amount |-> a, status |-> s])], now)
    IN  /\ Len(probe.doc.payments) < MaxAppends
        /\ probe' = [stored |-> r.stored, doc |-> r.doc,
                     completed |-> probe.completed
                                     + (IF s = "COMPLETED" THEN a ELSE 0),
                     rate |-> NotRead]
        /\ UNCHANGED <<dcaVars, caseVars, userVars, collVars>>

\* doc.recoveryRate read on the document
readRecoveryRate ==
    /\ ~probe.rate.done
    /\ probe' = [probe EXCEPT !.rate =
                    [done |-> TRUE, num |-> recoveryRate(probe.doc).num,
                     den |-> recoveryRate(probe.doc).den]]
    /\ UNCHANGED <<dcaVars, caseVars, userVars, collVars>>

\* a case without payments, currentAmount = originalAmount
InitRecovery ==
    /\ \E o \in OrigAmounts :
          probe = [stored |-> NewCase("NEW", NoDCA, o, o, 1, 1),
                   doc |-> NewCase("NEW", NoDCA, o, o, 1, 1),
                   completed |-> 0, rate |-> NotRead]
    /\ StoreIdle
    /\ UserIdle
    /\ CollIdle

NextRecovery ==
    \/ \E a \in PayAmounts : \E s \in PaymentStatusEnum : recordPayment(a, s)
    \/ readRecoveryRate

SpecRecovery == InitRecovery /\ [][NextRecovery]_vars

\* C16: recoveryRate = (sum of the COMPLETED payments) / originalAmount * 100,
\* payments of the other statuses not counted, and 0 when originalAmount is 0;
\* originalAmount 1000 with one COMPLETED payment of 400 gives currentAmount
\* 600 and recoveryRate 40
C16_RecoveryRate ==
    probe.rate.done =>
        /\ probe.doc.orig = 0 => probe.rate.num = 0
        /\ probe.doc.orig # 0 =>
              probe.rate.num * probe.doc.orig = probe.completed * 100 * probe.rate.den
        /\ (/\ probe.doc.orig = 1000
            /\ probe.doc.payments = <<[amount |-> 400, status |-> "COMPLETED"]>>) =>
              /\ probe.stored.cur = 600
              /\ probe.rate.num = 40 * probe.rate.den

C16_Witness ==
    /\ probe.rate.done
    /\ probe.doc.orig = 1000
    /\ probe.doc.payments = <<[amount |-> 400, status |-> "COMPLETED"]>>
    /\ probe.stored.cur = 600
    /\ probe.rate.num = 40 * probe.rate.den

\* ------------------------------------------- monthly metrics of one DCA
MetricsCap == 24     \* "Keep only last 24 months"
MaxMetricCalls == 4  \* addMonthlyMetrics calls explored

\* the entries number i+1 .. j in append order; entry n is the n-th appended
Entries(i, j) == [n \in 1..(j - i) |-> i + n]

\* the push and the slice keeping the first 24 entries (slice(0, 24))
pushMonthlyFirst(metrics, monthlyData) ==
    LET pushed == Append(metrics, monthlyData)
    IN  IF Len(pushed) > MetricsCap
        THEN SubSeq(pushed, 1, MetricsCap)
        ELSE pushed

\* dcaSchema.methods.addMonthlyMetrics up to the save: push, then
\* slice(-24) when the array is longer than 24
pushMonthly(metrics, monthlyData) ==
    LET pushed == Append(metrics, monthlyData)
    IN  IF Len(pushed) > MetricsCap
        THEN SubSeq(pushed, Len(pushed) - MetricsCap + 1, Len(pushed))
        ELSE pushed

\* doc.save() of the document that was d0 when loaded and holds d1 now: an
\* array that was only pushed to is sent as $push of the new entries, an
\* array that was replaced (by its slice) as $set of the whole array
MetricsSave(stored, d0, d1) ==
    IF Len(d1) > Len(d0) /\ SubSeq(d1, 1, Len(d0)) = d0
    THEN stored \o SubSeq(d1, Len(d0) + 1, Len(d1))
    ELSE d1

\* dcaSchema.methods.addMonthlyMetrics on the document; the entry is the
\* next one in append order
addMonthlyMetrics ==
    /\ probe.calls < MaxMetricCalls
    /\ LET d1 == pushMonthly(probe.doc, probe.k + 1)
       IN  probe' = [stored |-> MetricsSave(probe.stored, probe.doc, d1),
                     doc |-> d1, k |-> probe.k + 1, calls |-> probe.calls + 1]
    /\ UNCHANGED <<dcaVars, caseVars, userVars, collVars>>

\* a DCA that k calls have been made on, and the document loaded from it
InitMetrics ==
    /\ \E k \in 0..(MetricsCap + 1) :
          probe = [stored |-> Entries(Max(0, k - MetricsCap), k),
                   doc |-> Entries(Max(0, k - MetricsCap), k),
                   k |-> k, calls |-> 0]
    /\ StoreIdle
    /\ UserIdle
    /\ CollIdle

NextMetrics == addMonthlyMetrics

SpecMetrics == InitMetrics /\ [][NextMetrics]_vars

\* C17: after k appends made one after the other, performance.monthlyMetrics
\* holds at most 24 entries and they are the last min(24, k) entries
\* appended, in append order
C17_LastTwentyFour ==
    /\ Len(probe.stored) <= 24
    /\ probe.stored = Entries(Max(0, probe.k - 24), probe.k)
    /\ probe.doc = probe.stored

C17_Witness ==
    /\ probe.calls > 0
    /\ probe.k > 24
    /\ Len(probe.stored) = 24
    /\ Head(probe.stored) = probe.k - 23

\* ------------------------------------------------------- case numbers
MaxCases == 3        \* records explored in the Case collection
MaxGiven == 2        \* sequence numbers a caller may put in a case number itself
Years == {2025, 2026}

NoNumber == <<>>     \* caseNumber not set on the document

\* `CASE-${year}-${String(k).padStart(6, '0')}`: the text is determined by,
\* and determines, the pair of year and k
CaseNumber(year, k) == <<year, k>>

\* countDocuments({createdAt: {$gte: Jan 1 of year, $lt: Jan 1 of year + 1}})
countDocuments(c, year) == Cardinality({i \in 1..Len(c) : c[i].year = year})

\* the year of new Date(): the year of the last record stored, or the next one
ThisYear(c) ==
    IF c = <<>> THEN Years
    ELSE {y \in Years : y >= c[Len(c)].year}

\* caseNumber: required (built-in validation of save())
CaseNumberValid(doc) == doc.number # NoNumber

\* caseSchema.pre('save'): generate the case number
CaseNumberHook(doc, c, year) ==
    IF doc.isNew /\ doc.number = NoNumber
    THEN [doc EXCEPT !.number = CaseNumber(year, countDocuments(c, year) + 1)]
    ELSE doc

\* caseNumber: unique index
DuplicateKey(c, number) == \E i \in 1..Len(c) : c[i].number = number

\* doc.save() of the document doc in the year given: the built-in validation
\* is the first pre-save hook, the schema's own pre-save hooks follow it, then
\* the insert (new document) or the update of the changed paths
SaveNumbered(c, doc, at, year) ==
    IF ~CaseNumberValid(doc)
    THEN [coll |-> c, number |-> doc.number, res |-> "ValidationError"]
    ELSE LET d2 == CaseNumberHook(doc, c, year)
         IN  IF ~doc.isNew
             THEN [coll |-> [c EXCEPT ![at].number = d2.number],
                   number |-> d2.number, res |-> "ok"]
             ELSE IF DuplicateKey(c, d2.number)
                  THEN [coll |-> c, number |-> d2.number, res |-> "DuplicateKey"]
                  ELSE [coll |-> Append(c, [number |-> d2.number, year |-> year]),
                        number |-> d2.number, res |-> "ok"]

\* new Case({caseNumber: number, ...}).save() by handler w
saveNewCase(w, number, year) ==
    /\ Len(coll) < MaxCases
    /\ year \in ThisYear(coll)
    /\ LET r == SaveNumbered(coll, [isNew |-> TRUE, number |-> number], 0, year)
       IN  /\ coll' = r.coll
           /\ ins' = [ins EXCEPT ![w] =
                  [op |-> "new", given |-> number, year |-> year,
                   before |-> countDocuments(coll, year),
                   number |-> r.number, res |-> r.res]]
    /\ UNCHANGED <<dcaVars, caseVars, probe, userVars>>

\* Case.findById, then save() of the document by handler w
saveStoredCase(w, i, year) ==
    /\ i \in 1..Len(coll)
    /\ year \in ThisYear(coll)
    /\ LET r == SaveNumbered(coll, [isNew |-> FALSE, number |-> coll[i].number], i, year)
       IN  /\ coll' = r.coll
           /\ ins' = [ins EXCEPT ![w] =
                  [op |-> "again", given |-> coll[i].number, year |-> year,
                   before |-> countDocuments(coll, year),
                   number |-> r.number, res |-> r.res]]
    /\ UNCHANGED <<dcaVars, caseVars, probe, userVars>>

InitNumbers ==
    /\ coll = <<>>
    /\ ins = [w \in Workers |-> NoDoc]
    /\ StoreIdle
    /\ ProbeIdle
    /\ UserIdle

NextNumbers ==
    \E w \in Workers : \E year \in Years :
        \/ saveNewCase(w, NoNumber, year)
        \/ \E y \in Years : \E k \in 1..MaxGiven : saveNewCase(w, CaseNumber(y, k), year)
        \/ \E i \in 1..MaxCases : saveStoredCase(w, i, year)

SpecNumbers == InitNumbers /\ [][NextNumbers]_vars

\* C18: a new case saved without a case number is stored with the number
\* CASE-<year>-<k>, k one more than the number of cases created so far in
\* that year, and no two stored cases share a case number
C18_SequentialNumbers ==
    /\ \A w \in Workers :
          (ins[w] # NoDoc /\ ins[w].op = "new" /\ ins[w].given = NoNumber) =>
              /\ ins[w].res = "ok"
              /\ ins[w].number = CaseNumber(ins[w].year, ins[w].before + 1)
    /\ \A i, j \in 1..Len(coll) : coll[i].number = coll[j].number => i = j

\* ------------------------------------------------ DCA association check
Roles == {"admin", "enterprise_manager", "dca_user"}
DcaIds == {"d1", "d2"}
NoUser == [none |-> TRUE]     \* req.user not set
Missing == "missing"          \* no DCA record with the _id

\* the middleware with the status test left out (only !dca)
requireDCAAssociationAnyStatus(u, store, up) ==
    IF u = NoUser THEN [res |-> "401", dca |-> NoDCA]
    ELSE IF u.role = "dca_user"
    THEN IF u.dcaId = NoDCA THEN [res |-> "403", dca |-> NoDCA]
         ELSE IF ~up THEN [res |-> "500", dca |-> NoDCA]
         ELSE IF store[u.dcaId] = Missing
              THEN [res |-> "403", dca |-> NoDCA]
              ELSE [res |-> "next", dca |-> u.dcaId]
    ELSE [res |-> "next", dca |-> NoDCA]

\* requireDCAAssociation for req.user = u, the DCA collection store (status
\* of each record) and a database that answers (up) or throws: the response
\* sent, or "next" with the DCA put in req.dca
requireDCAAssociation(u, store, up) ==
    IF u = NoUser THEN [res |-> "401", dca |-> NoDCA]
    ELSE IF u.role = "dca_user"
    THEN IF u.dcaId = NoDCA THEN [res |-> "403", dca |-> NoDCA]
         ELSE IF ~up THEN [res |-> "500", dca |-> NoDCA]
         ELSE IF store[u.dcaId] = Missing \/ store[u.dcaId] # "ACTIVE"
              THEN [res |-> "403", dca |-> NoDCA]
              ELSE [res |-> "next", dca |-> u.dcaId]
    ELSE [res |-> "next", dca |-> NoDCA]

\* a request passes through the middleware
callRequireDCAAssociation ==
    /\ ~probe.done
    /\ probe' = [probe EXCEPT
                    !.done = TRUE,
                    !.out = requireDCAAssociation(probe.user, probe.dcas, probe.up)]
    /\ UNCHANGED <<dcaVars, caseVars, userVars, collVars>>

\* an authenticated user or none, and a DCA collection
InitAssoc ==
    /\ \E u \in {NoUser} \cup [role : Roles, dcaId : DcaIds \cup {NoDCA}] :
       \E store \in [DcaIds -> DcaStatuses \cup {Missing}] :
       \E up \in BOOLEAN :
          probe = [user |-> u, dcas |-> store, up |-> up, done |-> FALSE,
                   out |-> [res |-> "none", dca |-> NoDCA]]
    /\ StoreIdle
    /\ UserIdle
    /\ CollIdle

NextAssoc == callRequireDCAAssociation

SpecAssoc == InitAssoc /\ [][NextAssoc]_vars

\* the request is one of a dca_user
IsDcaUser == probe.user # NoUser /\ probe.user.role = "dca_user"

\* C19: a dca_user proceeds only when its dcaId is set and is the _id of a
\* DCA with status ACTIVE, and then req.dca is that DCA; with no dcaId, no
\* such DCA or a DCA that is not ACTIVE the answer is 403 and the handler is
\* not reached; a user of another role always proceeds
C19_DcaAssociation ==
    probe.done =>
        /\ (IsDcaUser /\ probe.out.res = "next") =>
              /\ probe.user.dcaId # NoDCA
              /\ probe.dcas[probe.user.dcaId] = "ACTIVE"
              /\ probe.out.dca = probe.user.dcaId
        /\ (IsDcaUser /\ probe.user.dcaId = NoDCA) => probe.out.res = "403"
        /\ (IsDcaUser /\ probe.user.dcaId # NoDCA /\ probe.up) =>
              IF probe.dcas[probe.user.dcaId] = "ACTIVE"
              THEN probe.out.res = "next"
              ELSE probe.out.res = "403"
        /\ (probe.user # NoUser /\ probe.user.role # "dca_user") =>
              probe.out.res = "next"

C19_Witness ==
    /\ probe.done
    /\ IsDcaUser
    /\ probe.user.dcaId = "d2"
    /\ probe.dcas["d1"] = "SUSPENDED"
    /\ probe.out = [res |-> "next", dca |-> "d2"]

\* -------------------------------------------------------- account lockout
LockThreshold == 5   \* this.loginAttempts + 1 >= 5
LockTime == 2        \* 2 * 60 * 60 * 1000 ms, the clock counted in hours
MaxHour == 5         \* last hour of the wall clock explored
MaxAttempts == 7     \* largest stored loginAttempts explored

\* userSchema.virtual('isLocked')
isLocked(u, t) == u.lockUntil # NoDate /\ u.lockUntil > t

\* userSchema.methods.incLoginAttempts on the document u at time t: the
\* update operators of its updateOne, applied to the stored record
incLoginAttempts(stored, u, t) ==
    IF u.lockUntil # NoDate /\ u.lockUntil < t
    THEN [stored EXCEPT !.lockUntil = NoDate, !.loginAttempts = 1]
    ELSE IF u.loginAttempts + 1 >= LockThreshold /\ ~isLocked(u, t)
    THEN [stored EXCEPT !.loginAttempts = @ + 1, !.lockUntil = t + LockTime]
    ELSE [stored EXCEPT !.loginAttempts = @ + 1]

\* userSchema.methods.resetLoginAttempts: $unset of both paths; an unset
\* loginAttempts reads as its default 0
resetLoginAttempts(stored) ==
    [stored EXCEPT !.loginAttempts = 0, !.lockUntil = NoDate]

\* POST /login up to the password comparison: User.findByEmail returns a
\* private document; a request that finds it locked is answered 423 and
\* changes nothing
loginLoad(w) ==
    /\ wuser[w] = NoDoc
    /\ ~isLocked(user, now)
    /\ wuser' = [wuser EXCEPT ![w] = user]
    /\ UNCHANGED user
    /\ UNCHANGED <<dcaVars, caseVars, probe, collVars>>

\* POST /login after comparePassword found the password wrong:
\* await user.incLoginAttempts(), then 401
loginFail(w) ==
    /\ wuser[w] # NoDoc
    /\ user.loginAttempts < MaxAttempts
    /\ user' = incLoginAttempts(user, wuser[w], now)
    /\ wuser' = [wuser EXCEPT ![w] = NoDoc]
    /\ UNCHANGED <<dcaVars, caseVars, probe, collVars>>

\* POST /login after comparePassword found the password right:
\* resetLoginAttempts() when the document has attempts, then the tokens
\* and user.save(), which writes none of the two paths
loginSuccess(w) ==
    /\ wuser[w] # NoDoc
    /\ user' = IF wuser[w].loginAttempts > 0 THEN resetLoginAttempts(user) ELSE user
    /\ wuser' = [wuser EXCEPT ![w] = NoDoc]
    /\ UNCHANGED <<dcaVars, caseVars, probe, collVars>>

\* an hour passes
HourPasses ==
    /\ now < MaxHour
    /\ now' = now + 1
    /\ UNCHANGED <<case, wcase, last, ack>>
    /\ UNCHANGED <<dcaVars, probe, userVars, collVars>>

\* a user that has not failed a login
InitLogin ==
    /\ user = [loginAttempts |-> 0, lockUntil |-> NoDate]
    /\ wuser = [w \in Workers |-> NoDoc]
    /\ StoreIdle
    /\ ProbeIdle
    /\ CollIdle

NextLogin ==
    \/ \E w \in Workers : loginLoad(w) \/ loginFail(w) \/ loginSuccess(w)
    \/ HourPasses

SpecLogin == InitLogin /\ [][NextLogin]_vars

\* C20: in every stored state of the user, loginAttempts >= 5 implies that
\* lockUntil is set
C20_LockedAtFive ==
    user.loginAttempts >= 5 => user.lockUntil # NoDate

\* ------------------------------------------- access tokens and the password
MaxSecond == 4       \* last second of the wall clock explored
MaxPasswords == 3    \* passwords explored, the first one included

\* jwt.sign(payload, secret, {expiresIn}): for one user and one secret the
\* token is determined by the second of issue (its iat claim)
AuthToken(t) == [iat |-> t]

\* userSchema.methods.changedPasswordAfter
changedPasswordAfter(u, JWTTimestamp) ==
    IF u.passwordChanged
    THEN JWTTimestamp < u.passwordChangedAt
    ELSE FALSE

\* userSchema.pre('save') of a stored user whose password was modified at
\* second t: the hash, and passwordChangedAt = Date.now() - 1000, which
\* overwrites the date the route had put there
UserPreSavePassword(u, newPassword, t) ==
    [u EXCEPT !.password = newPassword,
              !.passwordChanged = TRUE,
              !.passwordChangedAt = t - 1]

\* authenticate for a verified token of an active, unlocked user: 401 when
\* the password was changed after the token was issued, next() otherwise
authenticate(u, token) ==
    IF changedPasswordAfter(u, token.iat) THEN "401" ELSE "next"

\* POST /login with the stored password: generateAuthToken()
passwordLogin ==
    /\ probe' = [probe EXCEPT !.issued = @ \cup {AuthToken(now)},
                              !.request = [token |-> AuthToken(now), res |-> "issued"]]
    /\ UNCHANGED <<dcaVars, caseVars, userVars, collVars>>

\* a request with an access token that was issued passes authenticate
authenticatedRequest(token) ==
    /\ token \in probe.issued
    /\ probe' = [probe EXCEPT !.request =
                    [token |-> token, res |-> authenticate(user, token)]]
    /\ UNCHANGED <<dcaVars, caseVars, userVars, collVars>>

\* PUT /change-password with an access token that authenticate lets
\* through, the current password and a new one: user.save()
changePassword(token) ==
    /\ token \in probe.issued
    /\ authenticate(user, token) = "next"
    /\ user.password < MaxPasswords
    /\ user' = UserPreSavePassword(user, user.password + 1, now)
    /\ probe' = [probe EXCEPT !.changedAt = now,
                              !.request = [token |-> token, res |-> "changed"]]
    /\ UNCHANGED <<wuser, dcaVars, caseVars, collVars>>

\* POST /reset-password/:token with the reset token of a forgot-password
\* request made less than 10 minutes ago: user.save()
resetPassword ==
    /\ user.password < MaxPasswords
    /\ user' = UserPreSavePassword(user, user.password + 1, now)
    /\ probe' = [probe EXCEPT !.changedAt = now,
                              !.request = [token |-> AuthToken(NoDate), res |-> "reset"]]
    /\ UNCHANGED <<wuser, dcaVars, caseVars, collVars>>

\* a second passes
SecondPasses ==
    /\ now < MaxSecond
    /\ now' = now + 1
    /\ UNCHANGED <<case, wcase, last, ack>>
    /\ UNCHANGED <<dcaVars, probe, userVars, collVars>>

\* a user that never changed its password; no token issued yet
InitPassword ==
    /\ user = [password |-> 1, passwordChanged |-> FALSE, passwordChangedAt |-> NoDate]
    /\ wuser = [w \in Workers |-> NoDoc]
    /\ probe = [issued |-> {}, changedAt |-> NoDate,
                request |-> [token |-> AuthToken(NoDate), res |-> "none"]]
    /\ StoreIdle
    /\ CollIdle

NextPassword ==
    \/ passwordLogin
    \/ \E t \in 1..MaxSecond : authenticatedRequest(AuthToken(t))
    \/ \E t \in 1..MaxSecond : changePassword(AuthToken(t))
    \/ resetPassword
    \/ SecondPasses

SpecPassword == InitPassword /\ [][NextPassword]_vars

\* C21: after a password change or reset, a request with an access token
\* issued before it (here: in an earlier second) is answered 401 by
\* authenticate and does not reach the handler
C21_OldTokensRejected ==
    (/\ probe.request.res \in {"next", "401"}
     /\ probe.changedAt # NoDate
     /\ probe.request.token.iat < probe.changedAt) =>
        probe.request.res = "401"

\* ------------------------------------------------ refresh tokens and sessions
MaxIssues == 3            \* refresh tokens issued in one behaviour
RefreshCap == 5           \* stored refresh tokens kept by generateRefreshToken
RefreshLife == 2592000    \* seconds a refresh token lives (30 days)
LockSeconds == 7200       \* seconds an account stays locked (2 hours)

\* jwt.sign({id, type: 'refresh'}, secret, {expiresIn: '30d'}): for one
\* user the token is determined by the second it is signed in
RefreshToken(t) == [iat |-> t, type |-> "refresh"]

\* the oldest RefreshCap entries of a list: slice(0, 5)
FirstEntries(s) ==
    IF Len(s) > RefreshCap THEN SubSeq(s, 1, RefreshCap) ELSE s

\* the newest RefreshCap entries of a list: refreshTokens.slice(-5)
LastEntries(s) ==
    IF Len(s) > RefreshCap THEN SubSeq(s, Len(s) - RefreshCap + 1, Len(s)) ELSE s

\* User.methods.generateRefreshToken at second t: the document afterwards
generateRefreshToken(u, t) ==
    [u EXCEPT !.refreshTokens =
        LastEntries(Append(@, [token |-> RefreshToken(t), expiresAt |-> t + RefreshLife]))]

\* refreshTokens.filter(t => t.token !== token)
WithoutToken(s, token) == SelectSeq(s, LAMBDA e : e.token # token)

\* middleware validateRefreshToken on the loaded user u at second t
validateRefreshToken(u, token, t) ==
    IF token.type # "refresh" \/ token.iat + RefreshLife <= t THEN "401"
    ELSE IF \E i \in 1..Len(u.refreshTokens) :
                /\ u.refreshTokens[i].token = token
                /\ u.refreshTokens[i].expiresAt > t
         THEN "next"
         ELSE "401"

\* what a request leaves in the history: the route, the refresh token it
\* carried or got, the answer, and what the store held when the request
\* came in: the account's flags and whether the token had been removed
Answer(op, token, res) ==
    [op |-> op, token |-> token, res |-> res,
     active |-> user.isActive, locked |-> isLocked(user, now),
     removed |-> token \in probe.revoked]

\* POST /login with the right password
sessionLogin ==
    /\ probe.issues < MaxIssues
    /\ IF isLocked(user, now) THEN
           /\ probe' = [probe EXCEPT !.last = Answer("login", RefreshToken(now), "423")]
           /\ UNCHANGED user
       ELSE IF ~user.isActive THEN
           /\ probe' = [probe EXCEPT !.last = Answer("login", RefreshToken(now), "401")]
           /\ UNCHANGED user
       ELSE
           /\ user' = generateRefreshToken(user, now)
           /\ probe' = [probe EXCEPT !.issues = @ + 1,
                                     !.last = Answer("login", RefreshToken(now), "token")]
    /\ UNCHANGED <<wuser, dcaVars, caseVars, collVars>>

\* POST /refresh with a refresh token; rotate is the outcome of
\* Math.random() < 0.1
refresh(token, rotate) ==
    /\ rotate => probe.issues < MaxIssues
    /\ IF validateRefreshToken(user, token, now) = "401" THEN
           /\ probe' = [probe EXCEPT !.last = Answer("refresh", token, "401")]
           /\ UNCHANGED user
       ELSE IF rotate THEN
           /\ user' = generateRefreshToken(
                          [user EXCEPT !.refreshTokens = WithoutToken(@, token)], now)
           /\ probe' = [probe EXCEPT !.issues = @ + 1,
                                     !.revoked = @ \cup {token},
                                     !.last = Answer("refresh", token, "token")]
       ELSE
           /\ probe' = [probe EXCEPT !.last = Answer("refresh", token, "token")]
           /\ UNCHANGED user
    /\ UNCHANGED <<wuser, dcaVars, caseVars, collVars>>

\* POST /logout of an authenticated user, with the refresh token of the
\* session in the body
logout(token) ==
    /\ user.isActive /\ ~isLocked(user, now)
    /\ user' = [user EXCEPT !.refreshTokens = WithoutToken(@, token)]
    /\ probe' = [probe EXCEPT !.revoked = @ \cup {token},
                              !.last = Answer("logout", token, "200")]
    /\ UNCHANGED <<wuser, dcaVars, caseVars, collVars>>

\* POST /logout without a refresh token, PUT /change-password and
\* POST /reset-password: user.refreshTokens = []
logoutAll ==
    /\ user.refreshTokens # <<>>
    /\ user' = [user EXCEPT !.refreshTokens = <<>>]
    /\ probe' = [probe EXCEPT
                    !.revoked = @ \cup {user.refreshTokens[i].token :
                                           i \in 1..Len(user.refreshTokens)},
                    !.last = Answer("logoutAll", RefreshToken(NoDate), "200")]
    /\ UNCHANGED <<wuser, dcaVars, caseVars, collVars>>

\* an administrator deactivates the account
deactivate ==
    /\ user.isActive
    /\ user' = [user EXCEPT !.isActive = FALSE]
    /\ UNCHANGED <<probe, wuser, dcaVars, caseVars, collVars>>

\* the failed login that reaches the threshold locks the account
lockAccount ==
    /\ ~isLocked(user, now)
    /\ user' = [user EXCEPT !.lockUntil = now + LockSeconds]
    /\ UNCHANGED <<probe, wuser, dcaVars, caseVars, collVars>>

\* an active, unlocked user without a session
InitSession ==
    /\ user = [isActive |-> TRUE, lockUntil |-> NoDate, refreshTokens |-> <<>>]
    /\ wuser = [w \in Workers |-> NoDoc]
    /\ probe = [issues |-> 0, revoked |-> {},
                last |-> [op |-> "none", token |-> RefreshToken(NoDate), res |-> "none",
                          active |-> TRUE, locked |-> FALSE, removed |-> FALSE]]
    /\ StoreIdle
    /\ CollIdle

NextSession ==
    \/ sessionLogin
    \/ \E t \in 1..MaxSecond, rotate \in BOOLEAN : refresh(RefreshToken(t), rotate)
    \/ \E t \in 1..MaxSecond : logout(RefreshToken(t))
    \/ logoutAll
    \/ deactivate
    \/ lockAccount
    \/ SecondPasses

SpecSession == InitSession /\ [][NextSession]_vars

\* C22: POST /login and POST /refresh hand out an access token only to a
\* user that is active and not locked at that moment
C22_NoTokenForBarredUser ==
    (probe.last.op \in {"login", "refresh"} /\ probe.last.res = "token") =>
        (probe.last.active /\ ~probe.last.locked)

\* C23: a refresh token removed by a logout, a password change or reset, or
\* a rotation is rejected by every later POST /refresh
C23_RevokedRejected ==
    (probe.last.op = "refresh" /\ probe.last.removed) => probe.last.res = "401"

\* ------------------------------------------ the stored refresh tokens' cap
MaxTokenCalls == 7        \* generateRefreshToken calls on one user

\* user.generateRefreshToken() followed by user.save(), as POST /login and
\* a rotating POST /refresh do; the history keeps every token returned
callGenerateRefreshToken ==
    /\ Len(probe.issued) < MaxTokenCalls
    /\ user' = generateRefreshToken(user, now)
    /\ probe' = [issued |-> Append(probe.issued, RefreshToken(now)),
                 returned |-> RefreshToken(now)]
    /\ UNCHANGED <<wuser, dcaVars, caseVars, collVars>>

InitTokens ==
    /\ user = [isActive |-> TRUE, lockUntil |-> NoDate, refreshTokens |-> <<>>]
    /\ wuser = [w \in Workers |-> NoDoc]
    /\ probe = [issued |-> <<>>, returned |-> RefreshToken(NoDate)]
    /\ StoreIdle
    /\ CollIdle

NextTokens ==
    \/ callGenerateRefreshToken
    \/ SecondPasses

SpecTokens == InitTokens /\ [][NextTokens]_vars

\* C24: after any sequence of generateRefreshToken calls the list holds at
\* most 5 entries, they are the most recently issued tokens (all of them
\* while there are at most 5) in issue order, and the token just returned
\* is among them
C24_FiveMostRecent ==
    LET n == Len(probe.issued)
        k == Len(user.refreshTokens)
    IN  /\ k <= RefreshCap
        /\ k = (IF n < RefreshCap THEN n ELSE RefreshCap)
        /\ \A i \in 1..k : user.refreshTokens[i].token = probe.issued[n - k + i]
        /\ n > 0 => \E i \in 1..k : user.refreshTokens[i].token = probe.returned

C24_Witness ==
    /\ Len(probe.issued) > RefreshCap + 1
    /\ Len(user.refreshTokens) = RefreshCap
    /\ user.refreshTokens[1].token # user.refreshTokens[RefreshCap].token
    /\ user.refreshTokens[1].token # probe.issued[1]

\* ------------------------------------------------------ password reset tokens
MaxMinute == 12      \* last minute of the wall clock explored
MaxForgot == 2       \* forgot-password requests in one behaviour
ResetTime == 10      \* minutes a reset token lives
NoToken == [none |-> TRUE]

\* crypto.createHash('sha256').update(token).digest('hex')
Sha256(token) == [sha256 |-> token]

\* a lookup by the token alone, whatever its expiry
FindByResetTokenAnyTime(u, token, t) == u.passwordResetToken = Sha256(token)

\* User.findOne({passwordResetToken: hashedToken,
\*               passwordResetExpires: {$gt: Date.now()}}) finds the user u
FindByResetToken(u, token, t) ==
    /\ u.passwordResetToken = Sha256(token)
    /\ u.passwordResetExpires > t

\* POST /forgot-password for the user's email: the k-th request draws the
\* k-th random token
forgotPassword ==
    /\ Len(probe.issuedAt) < MaxForgot
    /\ user' = [user EXCEPT !.passwordResetToken = Sha256(Len(probe.issuedAt) + 1),
                            !.passwordResetExpires = now + ResetTime]
    /\ probe' = [probe EXCEPT !.issuedAt = Append(@, now),
                              !.last = [op |-> "forgot", token |-> Len(probe.issuedAt) + 1,
                                        res |-> "200", late |-> FALSE, stored |-> user]]
    /\ UNCHANGED <<wuser, dcaVars, caseVars, collVars>>

\* POST /reset-password/:token up to the lookup: 400 without a user,
\* otherwise the handler goes on with the document it found
resetLookup(w, token) ==
    /\ wuser[w] = NoDoc
    /\ token <= Len(probe.issuedAt)
    /\ LET late == \/ token \in probe.used
                   \/ now >= probe.issuedAt[token] + ResetTime
                   \/ token < Len(probe.issuedAt)
       IN  IF FindByResetToken(user, token, now)
           THEN /\ wuser' = [wuser EXCEPT ![w] = [doc |-> user, token |-> token]]
                /\ probe' = [probe EXCEPT !.last = [op |-> "lookup", token |-> token,
                                  res |-> "found", late |-> late, stored |-> user]]
           ELSE /\ wuser' = wuser
                /\ probe' = [probe EXCEPT !.last = [op |-> "reset", token |-> token,
                                  res |-> "400", late |-> late, stored |-> user]]
    /\ UNCHANGED <<user, dcaVars, caseVars, collVars>>

\* the rest of the handler: the new password, passwordChangedAt, the reset
\* fields unset, refreshTokens = [], user.save(). Emptying a list that
\* holds entries is a versioned write, which a stale document loses
resetSave(w) ==
    /\ wuser[w] # NoDoc
    /\ wuser' = [wuser EXCEPT ![w] = NoDoc]
    /\ LET d == wuser[w].doc
       IN  IF d.refreshTokens # <<>> /\ d.v # user.v
           THEN /\ user' = user
                /\ probe' = [probe EXCEPT !.last = [op |-> "reset", token |-> wuser[w].token,
                                  res |-> "500", late |-> FALSE, stored |-> user]]
           ELSE /\ user' = [user EXCEPT
                               !.password = IF @ < MaxPasswords THEN @ + 1 ELSE 1,
                               !.passwordResetToken = NoToken,
                               !.passwordResetExpires = NoDate,
                               !.refreshTokens = IF d.refreshTokens # <<>> THEN <<>> ELSE @,
                               !.v = IF d.refreshTokens # <<>> THEN @ + 1 ELSE @]
                /\ probe' = [probe EXCEPT !.used = @ \cup {wuser[w].token},
                                 !.last = [op |-> "reset", token |-> wuser[w].token,
                                  res |-> "200", late |-> FALSE, stored |-> user]]
    /\ UNCHANGED <<dcaVars, caseVars, collVars>>

\* a minute passes
MinutePasses ==
    /\ now < MaxMinute
    /\ now' = now + 1
    /\ UNCHANGED <<case, wcase, last, ack>>
    /\ UNCHANGED <<dcaVars, probe, userVars, collVars>>

\* a user with or without a stored session and no reset token
InitReset ==
    /\ \E tokens \in {<<>>, <<[token |-> RefreshToken(NoDate), expiresAt |-> RefreshLife]>>} :
          user = [password |-> 1, passwordResetToken |-> NoToken,
                  passwordResetExpires |-> NoDate, refreshTokens |-> tokens, v |-> 0]
    /\ wuser = [w \in Workers |-> NoDoc]
    /\ probe = [issuedAt |-> <<>>, used |-> {},
                last |-> [op |-> "none", token |-> 0, res |-> "none",
                          late |-> FALSE, stored |-> user]]
    /\ StoreIdle
    /\ CollIdle

NextReset ==
    \/ forgotPassword
    \/ \E w \in Workers, token \in 1..MaxForgot : resetLookup(w, token)
    \/ \E w \in Workers : resetSave(w)
    \/ MinutePasses

SpecReset == InitReset /\ [][NextReset]_vars

remainingBalance(c) ==
    IF c.cur - totalPaid(c) > 0 THEN c.cur - totalPaid(c) ELSE 0

BalanceNotRead == [done |-> FALSE, value |-> 0]

\* caseSchema.methods.addPayment on the document, which saves it
payAndSave(a, s) ==
    LET r == CaseSave(probe.stored, probe.doc,
                      [probe.doc EXCEPT !.payments =
                          Append(@, [amount |-> a, status |-> s])], now)
    IN  /\ Len(probe.doc.payments) < MaxAppends
        /\ probe' = [stored |-> r.stored, doc |-> r.doc, balance |-> BalanceNotRead]
        /\ UNCHANGED <<dcaVars, caseVars, userVars, collVars>>

\* doc.remainingBalance read on the saved document
readRemainingBalance ==
    /\ ~probe.balance.done
    /\ probe' = [probe EXCEPT !.balance =
                    [done |-> TRUE, value |-> remainingBalance(probe.doc)]]
    /\ UNCHANGED <<dcaVars, caseVars, userVars, collVars>>

\* a case without payments, currentAmount = originalAmount
InitBalance ==
    /\ \E o \in OrigAmounts :
          probe = [stored |-> NewCase("NEW", NoDCA, o, o, 1, 1),
                   doc |-> NewCase("NEW", NoDCA, o, o, 1, 1),
                   balance |-> BalanceNotRead]
    /\ StoreIdle
    /\ UserIdle
    /\ CollIdle

NextBalance ==
    \/ \E a \in PayAmounts : \E s \in PaymentStatusEnum : payAndSave(a, s)
    \/ readRemainingBalance

SpecBalance == InitBalance /\ [][NextBalance]_vars

\* C26: on a saved case with COMPLETED payments remainingBalance is
\* max(0, originalAmount - totalPaid), the value of debt.currentAmount
C26_RemainingBalance ==
    (probe.balance.done /\ totalPaid(probe.doc) > 0) =>
        /\ probe.balance.value = probe.doc.cur
        /\ probe.balance.value =
              (IF probe.doc.orig - totalPaid(probe.doc) > 0
               THEN probe.doc.orig - totalPaid(probe.doc) ELSE 0)

\* --------------------------------------- what forgot-password answers
Emails == {"a@fedex.com", "b@fedex.com", "c@fedex.com"}
Environments == {"development", "production", "test"}
NoResetToken == [present |-> FALSE, value |-> 0]
NoAnswer == [given |-> FALSE, existed |-> FALSE, status |-> 0,
             body |-> [success |-> FALSE, message |-> "", resetToken |-> NoResetToken]]

\* a response whose body carries the reset token whatever NODE_ENV is
forgotPasswordResponseWithToken(exists, env, resetToken) ==
    [status |-> 200,
     body |-> [success |-> TRUE,
               message |-> "If an account with that email exists, a password reset link has been sent.",
               resetToken |-> IF exists THEN [present |-> TRUE, value |-> resetToken]
                              ELSE NoResetToken]]

\* the response of POST /forgot-password: res.json(...) of the branch
\* without a user, or res.json(responseData) after the token is saved
forgotPasswordResponse(exists, env, resetToken) ==
    IF ~exists
    THEN [status |-> 200,
          body |-> [success |-> TRUE,
                    message |-> "If an account with that email exists, a password reset link has been sent.",
                    resetToken |-> NoResetToken]]
    ELSE [status |-> 200,
          body |-> [success |-> TRUE,
                    message |-> "If an account with that email exists, a password reset link has been sent.",
                    resetToken |-> IF env = "development"
                                   THEN [present |-> TRUE, value |-> resetToken]
                                   ELSE NoResetToken]]

\* POST /register with an email that has no account yet
registerAccount(e) ==
    /\ e \notin probe.accounts
    /\ probe' = [probe EXCEPT !.accounts = @ \cup {e}]
    /\ UNCHANGED <<dcaVars, caseVars, userVars, collVars>>

\* POST /forgot-password with the email e; an existing account gets a new
\* reset token stored
forgotPasswordFor(e) ==
    /\ probe.tokens < MaxForgot
    /\ LET exists == e \in probe.accounts
           r == forgotPasswordResponse(exists, probe.env, probe.tokens + 1)
       IN  probe' = [probe EXCEPT
                        !.tokens = IF exists THEN @ + 1 ELSE @,
                        !.answers[e] = [given |-> TRUE, existed |-> exists,
                                        status |-> r.status, body |-> r.body]]
    /\ UNCHANGED <<dcaVars, caseVars, userVars, collVars>>

InitForgot ==
    /\ \E env \in Environments :
          probe = [env |-> env, accounts |-> {}, tokens |-> 0,
                   answers |-> [e \in Emails |-> NoAnswer]]
    /\ StoreIdle
    /\ UserIdle
    /\ CollIdle

NextForgot ==
    \/ \E e \in Emails : registerAccount(e)
    \/ \E e \in Emails : forgotPasswordFor(e)

SpecForgot == InitForgot /\ [][NextForgot]_vars

\* C27: outside development mode any two answers of POST /forgot-password
\* have the same status and the same body, whether or not the email had an
\* account
C27_SameAnswer ==
    probe.env # "development" =>
        \A e1, e2 \in Emails :
            (probe.answers[e1].given /\ probe.answers[e2].given) =>
                /\ probe.answers[e1].status = probe.answers[e2].status
                /\ probe.answers[e1].body = probe.answers[e2].body

C27_Witness ==
    /\ probe.env = "production"
    /\ \E e1, e2 \in Emails :
          /\ probe.answers[e1].given /\ probe.answers[e1].existed
          /\ probe.answers[e2].given /\ ~probe.answers[e2].existed

\* ------------------------------------------ the frontend's AuthProvider
Null == "null"                       \* null of a state field or a storage item
ApiUsers == {"user", "user'"}        \* user objects the API returns
ApiTokens == {"token1", "token2"}    \* access tokens the API returns
MaxUiCalls == 4                      \* calls of the context's functions

\* an action of the reducer; the payload fields a type does not use are Null
AuthAction(type, u, token, error) ==
    [type |-> type, user |-> u, token |-> token, error |-> error]

\* authReducer
authReducer(state, action) ==
    CASE action.type = "AUTH_START" ->
            [state EXCEPT !.isLoading = TRUE, !.error = Null]
      [] action.type = "AUTH_SUCCESS" ->
            [state EXCEPT !.user = action.user, !.token = action.token,
                          !.isAuthenticated = TRUE, !.isLoading = FALSE,
                          !.error = Null]
      [] action.type = "AUTH_FAILURE" ->
            [state EXCEPT !.user = Null, !.token = Null,
                          !.isAuthenticated = FALSE, !.isLoading = FALSE,
                          !.error = action.error]
      [] action.type = "AUTH_LOGOUT" ->
            [state EXCEPT !.user = Null, !.token = Null,
                          !.isAuthenticated = FALSE, !.isLoading = FALSE,
                          !.error = Null]
      [] action.type = "UPDATE_USER" ->
            [state EXCEPT !.user = action.user]
      [] action.type = "CLEAR_ERROR" ->
            [state EXCEPT !.error = Null]
      [] OTHER -> state

\* a call of one of the provider's functions: the new state and storage,
\* and in the history the function, its outcome and the state before it
UiCall(op, ok, state, storage) ==
    /\ probe.calls < MaxUiCalls
    /\ probe' = [state |-> state, storage |-> storage, calls |-> probe.calls + 1,
                 call |-> [op |-> op, ok |-> ok, before |-> probe.state]]
    /\ UNCHANGED <<dcaVars, caseVars, userVars, collVars>>

\* checkAuth of the mount effect; ok is the outcome of getCurrentUser()
checkAuth(ok, u) ==
    IF probe.storage.token = Null
    THEN UiCall("checkAuth", FALSE,
                authReducer(probe.state, AuthAction("AUTH_FAILURE", Null, Null, "")),
                probe.storage)
    ELSE IF ok
    THEN UiCall("checkAuth", TRUE,
                authReducer(probe.state,
                            AuthAction("AUTH_SUCCESS", u, probe.storage.token, Null)),
                probe.storage)
    ELSE UiCall("checkAuth", FALSE,
                authReducer(probe.state,
                            AuthAction("AUTH_FAILURE", Null, Null, "Session expired")),
                [token |-> Null, refreshToken |-> Null])

\* login; ok is the outcome of authService.login()
login(ok, u, token) ==
    LET started == authReducer(probe.state, AuthAction("AUTH_START", Null, Null, Null))
    IN  IF ok
        THEN UiCall("login", TRUE,
                    authReducer(started, AuthAction("AUTH_SUCCESS", u, token, Null)),
                    [token |-> token, refreshToken |-> token])
        ELSE UiCall("login", FALSE,
                    authReducer(started,
                                AuthAction("AUTH_FAILURE", Null, Null, "Login failed")),
                    probe.storage)

\* logout of the context
uiLogout ==
    UiCall("logout", TRUE,
           authReducer(probe.state, AuthAction("AUTH_LOGOUT", Null, Null, Null)),
           [token |-> Null, refreshToken |-> Null])

\* updateProfile of a logged-in user; ok is the outcome of
\* authService.updateProfile()
updateProfile(ok, u) ==
    /\ probe.state.isAuthenticated
    /\ IF ok
       THEN UiCall("updateProfile", TRUE,
                   authReducer(probe.state, AuthAction("UPDATE_USER", u, Null, Null)),
                   probe.storage)
       ELSE UiCall("updateProfile", FALSE,
                   authReducer(probe.state,
                       AuthAction("AUTH_FAILURE", Null, Null, "Profile update failed")),
                   probe.storage)

\* clearError
clearError ==
    UiCall("clearError", TRUE,
           authReducer(probe.state, AuthAction("CLEAR_ERROR", Null, Null, Null)),
           probe.storage)

\* initialState, with or without the token of an earlier visit in
\* localStorage
InitAuth ==
    /\ \E token \in ApiTokens \cup {Null} :
          probe = [state |-> [user |-> Null, token |-> token,
                              isAuthenticated |-> FALSE, isLoading |-> TRUE,
                              error |-> Null],
                   storage |-> [token |-> token, refreshToken |-> token],
                   calls |-> 0,
                   call |-> [op |-> "none", ok |-> TRUE,
                             before |-> [user |-> Null, token |-> token,
                                         isAuthenticated |-> FALSE,
                                         isLoading |-> TRUE, error |-> Null]]]
    /\ StoreIdle
    /\ UserIdle
    /\ CollIdle

NextAuth ==
    \/ \E ok \in BOOLEAN, u \in ApiUsers : checkAuth(ok, u)
    \/ \E ok \in BOOLEAN, u \in ApiUsers, token \in ApiTokens : login(ok, u, token)
    \/ uiLogout
    \/ \E ok \in BOOLEAN, u \in ApiUsers : updateProfile(ok, u)
    \/ clearError

SpecAuth == InitAuth /\ [][NextAuth]_vars

\* C28: a failed updateProfile leaves user, token and isAuthenticated as
\* they were before the call, and state.token equal to the token in
\* localStorage
C28_FailedUpdateKeepsSession ==
    (probe.call.op = "updateProfile" /\ ~probe.call.ok) =>
        /\ probe.state.user = probe.call.before.user
        /\ probe.state.token = probe.call.before.token
        /\ probe.state.isAuthenticated = probe.call.before.isAuthenticated
        /\ probe.state.token = probe.storage.token

\* --------------------------------------- the API client's 401 interceptor
HttpStatuses == {200, 401, 500}      \* statuses the API answers with
NoRequest == [pc |-> "idle", retry |-> FALSE, auth |-> Null, sends |-> 0,
              refreshes |-> 0, status |-> 0, outcome |-> "none"]

\* the error handler that refreshes on every 401, whatever _retry says
onResponseErrorAlways(status, retry, refreshToken) ==
    IF status = 401
    THEN (IF refreshToken # Null THEN "refresh" ELSE "reject")
    ELSE "reject"

\* the error handler of api.interceptors.response up to its first await:
\* what it does with an error of the given status on a request whose
\* config has _retry = retry
onResponseError(status, retry, refreshToken) ==
    IF status = 401 /\ ~retry
    THEN (IF refreshToken # Null THEN "refresh" ELSE "reject")
    ELSE "reject"

\* a call through api: the request interceptor adds the stored token
apiRequest(w) ==
    /\ probe.req[w].pc \in {"idle", "done"}
    /\ probe' = [probe EXCEPT
                    !.req[w] = [NoRequest EXCEPT !.pc = "sent", !.sends = 1,
                                                 !.auth = probe.storage.token],
                    !.event = "request"]
    /\ UNCHANGED <<dcaVars, caseVars, userVars, collVars>>

\* the API answers the request of w; an error goes through the interceptor
apiAnswer(w, status) ==
    /\ probe.req[w].pc = "sent"
    /\ LET r == probe.req[w]
       IN  IF status = 200
           THEN probe' = [probe EXCEPT
                    !.req[w] = [r EXCEPT !.pc = "done", !.status = status,
                                         !.outcome = "response"],
                    !.event = "response"]
           ELSE IF onResponseError(status, r.retry, probe.storage.refreshToken) = "refresh"
           THEN probe' = [probe EXCEPT
                    !.req[w] = [r EXCEPT !.pc = "refreshing", !.status = status,
                                         !.retry = TRUE],
                    !.event = "refreshing"]
           ELSE probe' = [probe EXCEPT
                    !.req[w] = [r EXCEPT !.pc = "done", !.status = status,
                                         !.retry = (r.retry \/ status = 401),
                                         !.outcome = "rejection"],
                    !.event = "rejection"]
    /\ UNCHANGED <<dcaVars, caseVars, userVars, collVars>>

\* axios.post(`${API_URL}/auth/refresh`) returns: with new tokens, which
\* are stored and used for the retry, or with an error, which removes both
\* stored tokens and rejects with the first error
refreshAnswer(w, ok, token) ==
    /\ probe.req[w].pc = "refreshing"
    /\ LET r == probe.req[w]
       IN  IF ok
           THEN probe' = [probe EXCEPT
                    !.storage = [token |-> token, refreshToken |-> token],
                    !.req[w] = [r EXCEPT !.pc = "sent", !.auth = token,
                                         !.sends = @ + 1, !.refreshes = @ + 1],
                    !.event = "retry"]
           ELSE probe' = [probe EXCEPT
                    !.storage = [token |-> Null, refreshToken |-> Null],
                    !.req[w] = [r EXCEPT !.pc = "done", !.refreshes = @ + 1,
                                         !.outcome = "rejection"],
                    !.event = "refreshFailed"]
    /\ UNCHANGED <<dcaVars, caseVars, userVars, collVars>>

\* a browser with or without the tokens of a login; no request under way
InitApi ==
    /\ \E token \in ApiTokens \cup {Null} :
          probe = [storage |-> [token |-> token, refreshToken |-> token],
                   req |-> [w \in Workers |-> NoRequest],
                   event |-> "none"]
    /\ StoreIdle
    /\ UserIdle
    /\ CollIdle

NextApi ==
    \/ \E w \in Workers : apiRequest(w)
    \/ \E w \in Workers, status \in HttpStatuses : apiAnswer(w, status)
    \/ \E w \in Workers, ok \in BOOLEAN, token \in ApiTokens : refreshAnswer(w, ok, token)

SpecApi == InitApi /\ [][NextApi]_vars

\* C29: a request is refreshed and retried at most once, a retried request
\* that fails again is rejected, a finished request has a response or a
\* rejection, and a failed refresh leaves neither token in localStorage
C29_RetryOnce ==
    /\ \A w \in Workers :
          LET r == probe.req[w]
          IN  /\ r.refreshes <= 1
              /\ r.sends <= 2
              /\ r.sends = 2 => (r.retry /\ r.refreshes = 1)
              /\ r.pc = "refreshing" => (r.sends = 1 /\ r.refreshes = 0)
              /\ r.pc = "done" => r.outcome \in {"response", "rejection"}
    /\ probe.event = "refreshFailed" =>
          (probe.storage.token = Null /\ probe.storage.refreshToken = Null)

C29_Witness ==
    \E w \in Workers :
        /\ probe.req[w].pc = "done"
        /\ probe.req[w].sends = 2
        /\ probe.req[w].status = 401
        /\ probe.req[w].outcome = "rejection"
        /\ probe.storage.refreshToken # Null

====
